---- MODULE Spec2Model ----
(***************************************************************************)
(* Behavioural feature tracker of the "Behavior Stress Monitor" page       *)
(* (frontend/src/pages/StressBehaviour.jsx): the useBehaviorTracker hook,  *)
(* its DOM event handlers, pruneOld and snapshotFeatures.                   *)
(*                                                                         *)
(* Numbers.  Timestamps are performance.now() milliseconds and are kept as *)
(* integers.  Every derived statistic that JavaScript computes as a        *)
(* double (means, quantiles, speeds) is kept as an exact rational          *)
(* [n |-> numerator, d |-> denominator] in lowest terms; IEEE-754 rounding *)
(* is not modelled.  active_seconds_fraction is kept in thousandths, which *)
(* is what toFixed(3) retains.                                             *)
(*                                                                         *)
(* React.  `enabled` is the value of the `tracking` state captured by the  *)
(* currently attached handlers.  A toggle of the switch, the re-render and *)
(* the listener effect's cleanup/attach are one run-to-completion step     *)
(* (React flushes an update made in a discrete event, and its effects,     *)
(* before the browser delivers the next input event).                      *)
(*                                                                         *)
(* Specifications.  Spec is the tracker under every kind of event.         *)
(* SpecKeys and SpecMouse restrict the events to the keyboard (and clicks) *)
(* and to the mouse, SpecActive is a long run of events second after       *)
(* second, SpecQuantile calls quantile on lists of values, and SpecPage is *)
(* the page's prediction requests (sendWindowForPrediction, the interval,  *)
(* the manual send, the stored history).  SpecDom dispatches DOM key events *)
(* to the listeners as they are registered, and SpecLazy runs the handlers *)
(* next to a copy of the buffers that is never pruned.  A coordinate that  *)
(* is not a finite number is the value NaN, which no arithmetic is applied *)
(* to.                                                                     *)
(***************************************************************************)
EXTENDS Integers, Sequences, FiniteSets

\* ------------------------------------------------------------------ bounds
\* Number of handler invocations that are recorded (tracker enabled).
MaxEvents == 3
\* Number of handler invocations delivered in a row while disabled.
MaxDropped == 1
\* SpecActive: recorded events, and seconds the clock advances.
MaxActiveEvents == 11
MaxActiveSeconds == 10
\* SpecQuantile: length of the lists quantile is called on.
MaxLen == 4
\* SpecPage: prediction requests posted.
MaxRequests == 3
\* SpecDom: DOM key events dispatched.
MaxDomEvents == 3

\* Instants (performance.now() ms) at which something happens: apart by less
\* than a window, exactly a window, a window plus exactly the prune slack, and
\* more than that.
Times == {0, 500, 10500, 21000}
\* Date.now() - performance.now(), modulo one second: with this phase the
\* instants 0 and 500 fall into different epoch seconds.
EpochPhases == {500}
\* DOM keyboard events: (code, key).
KeyEvents == {[code |-> "KeyA", key |-> "a"], [code |-> "", key |-> "b"]}
\* Pointer positions (clientX, clientY) of mousemove, mousedown and wheel events.
Points == {<<0, 0>>, <<3, 4>>}
ClickPoints == {<<3, 4>>}
WheelPoints == {<<0, 0>>}
QuantileValues == {0, 1, 7, 100}

\* ------------------------------------------------------- program constants
WINDOW_MS == 10000
STEP_MS == 5000
PRUNE_SLACK_MS == 500
Null == -1
MOVE == 0
CLICK == 1
SCROLL == 2
HISTORY_MAX == 24
\* a coordinate that is not a finite number (NaN, an infinity)
NaN == -1000000
IsFinite(x) == x /= NaN

VARIABLES
    now,          \* performance.now()
    epochPhase,   \* Date.now() - performance.now()
    enabled,      \* `tracking`, as captured by the attached handlers
    ref,          \* ref.current of useBehaviorTracker
    debug,        \* the page's `debug` state, written by updateDebug
    snap,         \* value returned by the snapshotFeatures call of this step
    handled,      \* history: handler invocations recorded so far
    sinceToggle,  \* history: handler invocations since the last toggle
    press,        \* history: per code, latest recorded key-down and the first key-up after it
    page,         \* StressBehaviour's state: busy, err, windows
    inflight,     \* prediction requests posted and not yet settled
    qcall,        \* the call of quantile made by this step, with its results
    dom,          \* the DOM key event being dispatched, and the key events dispatched so far
    lazy          \* history: ref.current as it would be had no handler pruned

vars == <<now, epochPhase, enabled, ref, debug, snap, handled, sinceToggle, press,
          page, inflight, qcall, dom, lazy>>

NoSnap == [none |-> TRUE]
NoCall == [none |-> TRUE]
NoEvent == [none |-> TRUE]

\* ------------------------------------------------------------- arithmetic
RECURSIVE GCD(_, _)
GCD(a, b) == IF b = 0 THEN a ELSE GCD(b, a % b)

Abs(x) == IF x < 0 THEN -x ELSE x

\* n / d in lowest terms, d > 0.
Rat(n, d) ==
    LET g == GCD(Abs(n), Abs(d))
        s == IF d < 0 THEN -1 ELSE 1
    IN  [n |-> s * (n \div g), d |-> s * (d \div g)]

Zero == Rat(0, 1)
RatOfInt(i) == Rat(i, 1)
RatAdd(a, b) == Rat(a.n * b.d + b.n * a.d, a.d * b.d)
RatLess(a, b) == a.n * b.d < b.n * a.d
RatLeq(a, b) == a.n * b.d <= b.n * a.d

Max(a, b) == IF a >= b THEN a ELSE b
Min(a, b) == IF a <= b THEN a ELSE b

RECURSIVE SumSeq(_)
SumSeq(s) == IF s = <<>> THEN 0 ELSE Head(s) + SumSeq(Tail(s))

RECURSIVE RatSum(_)
RatSum(s) == IF s = <<>> THEN Zero ELSE RatAdd(Head(s), RatSum(Tail(s)))

\* Array.prototype.filter
Filter(s, Test(_)) == SelectSeq(s, Test)

\* Array.prototype.map
Map(s, F(_)) == [i \in DOMAIN s |-> F(s[i])]

\* x placed after the entries of the sorted s whose key is not larger.
InsertSorted(s, x, Key(_)) ==
    LET n == Cardinality({j \in DOMAIN s : Key(s[j]) <= Key(x)})
    IN  SubSeq(s, 1, n) \o <<x>> \o SubSeq(s, n + 1, Len(s))

\* Array.prototype.sort with comparator (a, b) => Key(a) - Key(b): stable.
SortBy(s, Key(_)) ==
    LET f[i \in 0..Len(s)] ==
            IF i = 0 THEN <<>> ELSE InsertSorted(f[i - 1], s[i], Key)
    IN  f[Len(s)]

Ident(x) == x

\* Math.hypot on the integer offsets the model uses.
Hypot(dx, dy) ==
    LET q == dx * dx + dy * dy
    IN  CHOOSE r \in 0..q : r * r <= q /\ (r + 1) * (r + 1) > q

\* ---------------------------------------------------------------- helpers
nowEpochSec == (epochPhase + now) \div 1000

\* Math.ceil(WINDOW_MS / 1000)
SecWindow == (WINDOW_MS + 999) \div 1000

Undefined == [undefined |-> TRUE]

quantile_NoEmptyGuard(arr, q) ==
    LET a == SortBy(arr, Ident)
        pos == (Len(a) - 1) * q
        b == pos \div 100
        r == pos % 100
    IN  IF b + 1 \notin DOMAIN a THEN Undefined
        ELSE IF b + 2 \in DOMAIN a
             THEN Rat(a[b + 1] * 100 + r * (a[b + 2] - a[b + 1]), 100)
             ELSE RatOfInt(a[b + 1])

\* quantile(arr, q) with q given in hundredths (50, 95).
\* The caller's array once quantile has returned: the sort is applied to the
\* copy [...arr].
ArgAfterQuantile(arr) == arr

quantile_Nearest(arr, q) ==
    IF Len(arr) = 0 THEN Zero
    ELSE LET a == SortBy(arr, Ident)
             pos == (Len(a) - 1) * q
             b == pos \div 100
         IN  RatOfInt(a[b + 1])

quantile_NoSort(arr, q) ==
    IF Len(arr) = 0 THEN Zero
    ELSE LET a == arr
             pos == (Len(a) - 1) * q
             b == pos \div 100
             r == pos % 100
         IN  IF b + 2 \in DOMAIN a
             THEN Rat(a[b + 1] * 100 + r * (a[b + 2] - a[b + 1]), 100)
             ELSE RatOfInt(a[b + 1])

quantile(arr, q) ==
    IF Len(arr) = 0 THEN Zero
    ELSE LET a == SortBy(arr, Ident)
             pos == (Len(a) - 1) * q
             b == pos \div 100
             r == pos % 100
         IN  IF b + 2 \in DOMAIN a
             THEN Rat(a[b + 1] * 100 + r * (a[b + 2] - a[b + 1]), 100)
             ELSE RatOfInt(a[b + 1])

\* A handler that records its event without marking the second.
markActive_Skip(s) == s

markActive(s) == [s EXCEPT !.activeSeconds = @ \cup {nowEpochSec}]

updateDebug(s, d) ==
    LET isUp(p) == p.up_ts /= Null
        isMove(e) == e[4] = MOVE
        isClick(e) == e[4] = CLICK
        isScroll(e) == e[4] = SCROLL
    IN  [d EXCEPT !.kd = Len(s.keyPresses),
                  !.ku = Len(Filter(s.keyPresses, isUp)),
                  !.moves = Len(Filter(s.mouseEvents, isMove)),
                  !.clicks = Len(Filter(s.mouseEvents, isClick)),
                  !.scrolls = Len(Filter(s.mouseEvents, isScroll)),
                  !.lastKey = s.lastKey]

Cutoff_OneStride(t) == t - STEP_MS

\* const cutoff = now - WINDOW_MS - 500
Cutoff(t) == t - WINDOW_MS - PRUNE_SLACK_MS

\* The key-record filter of pruneOld.
KeepKey(p, cutoff) == (p.down_ts >= cutoff) \/ (p.up_ts /= Null /\ p.up_ts >= cutoff)

pruneOld_KeysOnly(s, t) ==
    LET cutoff == Cutoff(t)
        keepKey(p) == KeepKey(p, cutoff)
        keepTime(x) == x >= cutoff
        epochCut == nowEpochSec - SecWindow
    IN  [s EXCEPT !.keyPresses = Filter(@, keepKey),
                  !.keydowns_times = Filter(@, keepTime),
                  !.activeSeconds = {sec \in @ : sec >= epochCut}]

pruneOld_KeepOpen(s, t) ==
    LET cutoff == Cutoff(t)
        keepKey(p) == (p.up_ts = Null) \/ KeepKey(p, cutoff)
        keepTime(x) == x >= cutoff
        keepMouse(ev) == ev[1] >= cutoff
        epochCut == nowEpochSec - SecWindow
    IN  [s EXCEPT !.keyPresses = Filter(@, keepKey),
                  !.keydowns_times = Filter(@, keepTime),
                  !.mouseEvents = Filter(@, keepMouse),
                  !.activeSeconds = {sec \in @ : sec >= epochCut}]

pruneOld_KeepSeconds(s, t) ==
    LET cutoff == Cutoff(t)
        keepKey(p) == KeepKey(p, cutoff)
        keepTime(x) == x >= cutoff
        keepMouse(ev) == ev[1] >= cutoff
    IN  [s EXCEPT !.keyPresses = Filter(@, keepKey),
                  !.keydowns_times = Filter(@, keepTime),
                  !.mouseEvents = Filter(@, keepMouse)]

\* prune everything older than WINDOW_MS + small buffer
pruneOld(s, t) ==
    LET cutoff == Cutoff(t)
        keepKey(p) == KeepKey(p, cutoff)
        keepTime(x) == x >= cutoff
        keepMouse(ev) == ev[1] >= cutoff
        epochCut == nowEpochSec - SecWindow
    IN  [s EXCEPT !.keyPresses = Filter(@, keepKey),
                  !.keydowns_times = Filter(@, keepTime),
                  !.mouseEvents = Filter(@, keepMouse),
                  !.activeSeconds = {sec \in @ : sec >= epochCut}]

\* const code = e.code || e.key || "Unknown"
CodeOf(e) == IF e.code /= "" THEN e.code ELSE IF e.key /= "" THEN e.key ELSE "Unknown"

Codes == {CodeOf(e) : e \in KeyEvents}

\* Indices of the open presses of `code`.
OpenOf(kp, code) == {i \in DOMAIN kp : kp[i].up_ts = Null /\ kp[i].code = code}

MaxOf(S) == CHOOSE x \in S : \A y \in S : y <= x
MinOf(S) == CHOOSE x \in S : \A y \in S : x <= y

closeLatest_Earliest(kp, code, t1) ==
    IF OpenOf(kp, code) = {} THEN kp
    ELSE [kp EXCEPT ![MinOf(OpenOf(kp, code))].up_ts = t1]

closeLatest_All(kp, code, t1) ==
    [i \in DOMAIN kp |-> IF i \in OpenOf(kp, code) THEN [kp[i] EXCEPT !.up_ts = t1]
                                                   ELSE kp[i]]

\* close latest open press of same code (the loop of onKeyUpDoc)
closeLatest(kp, code, t1) ==
    IF OpenOf(kp, code) = {} THEN kp
    ELSE [kp EXCEPT ![MaxOf(OpenOf(kp, code))].up_ts = t1]

\* ------------------------------------------------------- history variables
\* press[c]: the time of the latest recorded key-down of code c, the time of the
\* first recorded key-up of c after it, and the index in ref.keyPresses of the
\* record that key-down appended (Null once it has been pruned).
NoPress == [down |-> Null, up |-> Null, idx |-> Null]

Recorded == /\ handled' = handled + 1
            /\ sinceToggle' = sinceToggle + 1

Dropped == /\ sinceToggle < MaxDropped
           /\ sinceToggle' = sinceToggle + 1
           /\ UNCHANGED <<ref, debug, handled, press>>

PressDown(code) ==
    [press EXCEPT ![code] = [down |-> now, up |-> Null, idx |-> Len(ref.keyPresses) + 1]]

PressUp(code) ==
    IF press[code].down /= Null /\ press[code].up = Null
    THEN [press EXCEPT ![code].up = now]
    ELSE press

\* The indices of press after the key records kp have gone through pruneOld(t).
Reindex(pr, kp, t) ==
    [c \in DOMAIN pr |->
        IF pr[c].idx = Null THEN pr[c]
        ELSE IF KeepKey(kp[pr[c].idx], Cutoff(t))
             THEN [pr[c] EXCEPT !.idx =
                      Cardinality({i \in 1..pr[c].idx : KeepKey(kp[i], Cutoff(t))})]
             ELSE [pr[c] EXCEPT !.idx = Null]]

\* --------------------------------------------------------------- handlers
\* What a handler does to ref.current and debug once its guard has passed.
keyDownBody(s, code, t) ==
    LET s1 == [s EXCEPT !.lastKey = <<"down", code>>,
                        !.keyPresses = Append(@, [down_ts |-> t, up_ts |-> Null, code |-> code]),
                        !.keydowns_times = Append(@, t)]
    IN  markActive(s1)

keyUpBody_EarlyReturn(s, code, t1) ==
    IF OpenOf(s.keyPresses, code) = {} THEN s
    ELSE markActive([s EXCEPT !.lastKey = <<"up", code>>,
                              !.keyPresses = closeLatest(@, code, t1)])

keyUpBody(s, code, t1) ==
    LET s1 == [s EXCEPT !.lastKey = <<"up", code>>,
                        !.keyPresses = closeLatest(@, code, t1)]
    IN  markActive(s1)

mouseMoveBody(s, x, y, t) ==
    LET s1 == [s EXCEPT !.mouseEvents = Append(@, <<t, x, y, MOVE>>),
                        !.lastMouse = [x |-> x, y |-> y, t |-> t]]
    IN  markActive(s1)

mouseDownBody(s, x, y, t) ==
    markActive([s EXCEPT !.mouseEvents = Append(@, <<t, x, y, CLICK>>)])

wheelBody(s, x, y, t) ==
    markActive([s EXCEPT !.mouseEvents = Append(@, <<t, x, y, SCROLL>>)])

\* markActive(); updateDebug(); pruneOld(t)
Finish(s, pr) ==
    /\ debug' = updateDebug(s, debug)
    /\ ref' = pruneOld(s, now)
    /\ press' = Reindex(pr, s.keyPresses, now)

onKeyDownDoc_NoGuard(e) ==
    /\ handled < MaxEvents
    /\ Recorded
    /\ Finish(keyDownBody(ref, CodeOf(e), now), PressDown(CodeOf(e)))
    /\ snap' = NoSnap
    /\ UNCHANGED <<now, epochPhase, qcall, page, inflight, enabled>>

onKeyDownDoc(e) ==
    /\ IF ~enabled THEN Dropped
       ELSE /\ Recorded
            /\ Finish(keyDownBody(ref, CodeOf(e), now), PressDown(CodeOf(e)))
    /\ snap' = NoSnap
    /\ UNCHANGED <<now, epochPhase, qcall, page, inflight, enabled>>

onKeyUpDoc(e) ==
    /\ IF ~enabled THEN Dropped
       ELSE /\ Recorded
            /\ Finish(keyUpBody(ref, CodeOf(e), now), PressUp(CodeOf(e)))
    /\ snap' = NoSnap
    /\ UNCHANGED <<now, epochPhase, qcall, page, inflight, enabled>>

onMouseMove(e) ==
    /\ IF ~enabled THEN Dropped
       ELSE /\ Recorded
            /\ Finish(mouseMoveBody(ref, e[1], e[2], now), press)
    /\ snap' = NoSnap
    /\ UNCHANGED <<now, epochPhase, qcall, page, inflight, enabled>>

onMouseDown(e) ==
    /\ IF ~enabled THEN Dropped
       ELSE /\ Recorded
            /\ Finish(mouseDownBody(ref, e[1], e[2], now), press)
    /\ snap' = NoSnap
    /\ UNCHANGED <<now, epochPhase, qcall, page, inflight, enabled>>

onWheel(e) ==
    /\ IF ~enabled THEN Dropped
       ELSE /\ Recorded
            /\ Finish(wheelBody(ref, e[1], e[2], now), press)
    /\ snap' = NoSnap
    /\ UNCHANGED <<now, epochPhase, qcall, page, inflight, enabled>>

\* ------------------------------------------------------- snapshotFeatures
\* A filter that lets a press without key-up through (null >= cut read as true).
InKeyWindow_OpenCounts(p, cut) == (p.down_ts >= cut) \/ (p.up_ts = Null)

\* The key-record filter of the keyboard window (cut = now - WINDOW_MS).
InKeyWindow(p, cut) == (p.down_ts >= cut) \/ (p.up_ts /= Null /\ p.up_ts >= cut)

keyPressesW(s, cut) ==
    LET test(p) == InKeyWindow(p, cut) IN Filter(s.keyPresses, test)

downsW(kpW) ==
    LET down(p) == p.down_ts IN SortBy(Map(kpW, down), Ident)

\* p.up_ts ?? p.down_ts
UpOrDown(p) == IF p.up_ts /= Null THEN p.up_ts ELSE p.down_ts

Dwell_NoSubtract(p) == Max(UpOrDown(p), 0)

Dwell(p) == Max(UpOrDown(p) - p.down_ts, 0)

dwellMs(kpW) == Map(kpW, Dwell)

ikgMs_FromFirst(dW) == [i \in 1..(Len(dW) - 1) |-> Max(dW[i + 1] - dW[1], 0)]

\* gaps between consecutive sorted down timestamps
ikgMs(dW) == [i \in 1..(Len(dW) - 1) |-> Max(dW[i + 1] - dW[i], 0)]

\* arr.length ? arr.reduce((a,b)=>a+b,0) / arr.length : 0
MeanInt(arr) == IF Len(arr) = 0 THEN Zero ELSE Rat(SumSeq(arr), Len(arr))

MeanRat(arr) ==
    IF Len(arr) = 0 THEN Zero
    ELSE LET t == RatSum(arr) IN Rat(t.n, t.d * Len(arr))

mev(s, cut) ==
    LET test(ev) == ev[1] >= cut
        time(ev) == ev[1]
    IN  SortBy(Filter(s.mouseEvents, test), time)

CountType(m, typ) == LET test(ev) == ev[4] = typ IN Len(Filter(m, test))

\* Math.hypot((x1 - x0), (y1 - y0)): not a finite number as soon as one of the
\* four coordinates is not.
DistOf(a, b) ==
    IF IsFinite(a[2]) /\ IsFinite(a[3]) /\ IsFinite(b[2]) /\ IsFinite(b[3])
    THEN Hypot(b[2] - a[2], b[3] - a[3])
    ELSE NaN

MouseLoop_SpeedPerMs(m) ==
    LET f[i \in 1..Max(Len(m), 1)] ==
            IF i = 1 THEN [totalDist |-> 0, speeds |-> <<>>, maxSpeed |-> Zero]
            ELSE LET acc == f[i - 1]
                     dtMs == m[i][1] - m[i - 1][1]
                     dist == DistOf(m[i - 1], m[i])
                     v == Rat(dist, dtMs)
                     acc1 == IF IsFinite(dist) THEN [acc EXCEPT !.totalDist = @ + dist]
                             ELSE acc
                 IN  IF m[i][4] = MOVE \/ m[i - 1][4] = MOVE
                     THEN IF dtMs > 0 /\ IsFinite(dist)
                          THEN [acc1 EXCEPT !.speeds = Append(@, v),
                                            !.maxSpeed = IF RatLess(@, v) THEN v ELSE @]
                          ELSE acc1
                     ELSE acc
    IN  f[Max(Len(m), 1)]

MouseLoop_NoFiniteCheck(m) ==
    LET f[i \in 1..Max(Len(m), 1)] ==
            IF i = 1 THEN [totalDist |-> 0, speeds |-> <<>>, maxSpeed |-> Zero]
            ELSE LET acc == f[i - 1]
                     dtMs == m[i][1] - m[i - 1][1]
                     dist == DistOf(m[i - 1], m[i])
                     v == Rat(dist * 1000, dtMs)
                     acc1 == IF IsFinite(dist) /\ IsFinite(acc.totalDist)
                             THEN [acc EXCEPT !.totalDist = @ + dist]
                             ELSE [acc EXCEPT !.totalDist = NaN]
                 IN  IF m[i][4] = MOVE \/ m[i - 1][4] = MOVE
                     THEN IF dtMs > 0 /\ IsFinite(dist)
                          THEN [acc1 EXCEPT !.speeds = Append(@, v),
                                            !.maxSpeed = IF RatLess(@, v) THEN v ELSE @]
                          ELSE acc1
                     ELSE acc
    IN  f[Max(Len(m), 1)]

MouseLoop_AllPairs(m) ==
    LET f[i \in 1..Max(Len(m), 1)] ==
            IF i = 1 THEN [totalDist |-> 0, speeds |-> <<>>, maxSpeed |-> Zero]
            ELSE LET acc == f[i - 1]
                     dtMs == m[i][1] - m[i - 1][1]
                     dist == DistOf(m[i - 1], m[i])
                     v == Rat(dist * 1000, dtMs)
                     acc1 == IF IsFinite(dist) THEN [acc EXCEPT !.totalDist = @ + dist]
                             ELSE acc
                 IN  IF dtMs > 0 /\ IsFinite(dist)
                     THEN [acc1 EXCEPT !.speeds = Append(@, v),
                                       !.maxSpeed = IF RatLess(@, v) THEN v ELSE @]
                     ELSE acc1
    IN  f[Max(Len(m), 1)]

\* The distance/speed loop over adjacent mouse records.
MouseLoop(m) ==
    LET f[i \in 1..Max(Len(m), 1)] ==
            IF i = 1 THEN [totalDist |-> 0, speeds |-> <<>>, maxSpeed |-> Zero]
            ELSE LET acc == f[i - 1]
                     dtMs == m[i][1] - m[i - 1][1]
                     dist == DistOf(m[i - 1], m[i])
                     v == Rat(dist * 1000, dtMs)
                     acc1 == IF IsFinite(dist) THEN [acc EXCEPT !.totalDist = @ + dist]
                             ELSE acc
                 IN  IF m[i][4] = MOVE \/ m[i - 1][4] = MOVE
                     THEN IF dtMs > 0 /\ IsFinite(dist)
                          THEN [acc1 EXCEPT !.speeds = Append(@, v),
                                            !.maxSpeed = IF RatLess(@, v) THEN v ELSE @]
                          ELSE acc1
                     ELSE acc
    IN  f[Max(Len(m), 1)]

ActiveFraction_NoClamp(s, sec) ==
    LET epochCut == sec - SecWindow
        count == Cardinality({x \in s.activeSeconds : x >= epochCut})
    IN  Rat((2 * count * 1000 + SecWindow) \div (2 * SecWindow), 1000)

\* Number(Math.min(1, count / secWindow).toFixed(3)), in thousandths.
ActiveFraction(s, sec) ==
    LET epochCut == sec - SecWindow
        count == Cardinality({x \in s.activeSeconds : x >= epochCut})
    IN  IF count >= SecWindow THEN Rat(1000, 1000)
        ELSE Rat((2 * count * 1000 + SecWindow) \div (2 * SecWindow), 1000)

key_events_NextUp(kpW) ==
    LET entry(p) == [down_ts |-> p.down_ts, up_ts |-> UpOrDown(p)]
        down(k) == k.down_ts
        sorted == SortBy(Map(kpW, entry), down)
    IN  [i \in DOMAIN sorted |->
            [down_ts |-> sorted[i].down_ts,
             up_ts |-> sorted[i].up_ts,
             next_down_ts |-> sorted[i].up_ts]]

\* fill next_down_ts for encoders
key_events(kpW) ==
    LET entry(p) == [down_ts |-> p.down_ts, up_ts |-> UpOrDown(p)]
        down(k) == k.down_ts
        sorted == SortBy(Map(kpW, entry), down)
    IN  [i \in DOMAIN sorted |->
            [down_ts |-> sorted[i].down_ts,
             up_ts |-> sorted[i].up_ts,
             next_down_ts |-> IF i + 1 \in DOMAIN sorted THEN sorted[i + 1].down_ts
                              ELSE sorted[i].up_ts]]

\* The payload built from buffers s at performance time t and epoch second sec.
Features(s, t, sec) ==
    LET cut == t - WINDOW_MS
        kpW == keyPressesW(s, cut)
        inDown(p) == p.down_ts >= cut
        inUp(p) == p.up_ts /= Null /\ p.up_ts >= cut
        keydowns == Len(Filter(kpW, inDown))
        keyups == Len(Filter(kpW, inUp))
        dw == dwellMs(kpW)
        ikg == ikgMs(downsW(kpW))
        m == mev(s, cut)
        loop == MouseLoop(m)
    IN  [ks_event_count |-> keydowns + keyups,
         ks_keydowns |-> keydowns,
         ks_keyups |-> keyups,
         ks_unique_keys |-> Cardinality({kpW[i].code : i \in DOMAIN kpW}),
         ks_mean_dwell_ms |-> MeanInt(dw),
         ks_median_dwell_ms |-> quantile(dw, 50),
         ks_p95_dwell_ms |-> quantile(dw, 95),
         ks_mean_ikg_ms |-> MeanInt(ikg),
         ks_median_ikg_ms |-> quantile(ikg, 50),
         ks_p95_ikg_ms |-> quantile(ikg, 95),
         mouse_move_count |-> CountType(m, MOVE),
         mouse_click_count |-> CountType(m, CLICK),
         mouse_scroll_count |-> CountType(m, SCROLL),
         mouse_total_distance_px |-> RatOfInt(loop.totalDist),
         mouse_mean_speed_px_s |-> MeanRat(loop.speeds),
         mouse_max_speed_px_s |-> loop.maxSpeed,
         active_seconds_fraction |-> ActiveFraction(s, sec),
         key_events |-> key_events(kpW),
         mouse_events |-> m,
         head |-> "hybrid"]

RefAfterSnapshot_Pruning(s, t) ==
    [s EXCEPT !.keyPresses = keyPressesW(s, t - WINDOW_MS),
              !.mouseEvents = mev(s, t - WINDOW_MS)]

\* ref.current once snapshotFeatures has returned: every filter, map and sort
\* of the function works on a fresh array and nothing is assigned to s.
RefAfterSnapshot(s, t) == s

snapshotFeatures ==
    /\ snap' = Features(ref, now, nowEpochSec)
    /\ ref' = RefAfterSnapshot(ref, now)
    /\ UNCHANGED <<now, epochPhase, qcall, dom, lazy, page, inflight, enabled, debug, handled, sinceToggle, press>>

\* ------------------------------------------------------------ environment
\* The Tracking switch / Start-Stop button: setTracking, re-render, effect.
ToggleTracking ==
    /\ enabled' = ~enabled
    /\ sinceToggle' = 0
    /\ snap' = NoSnap
    /\ UNCHANGED <<now, epochPhase, qcall, dom, lazy, page, inflight, ref, debug, handled, press>>

\* Time passes.
Tick ==
    /\ \E t \in Times : t > now /\ now' = t
    /\ snap' = NoSnap
    /\ UNCHANGED <<epochPhase, qcall, dom, lazy, page, inflight, enabled, ref, debug, handled, sinceToggle, press>>

\* The handlers record at most n events while tracking is on.
Within(n) == enabled => handled < n

\* A handler called once for its event, with no history of unpruned buffers.
Alone == UNCHANGED <<dom, lazy>>

\* The tracker and the environment after construction.
InitTracker ==
    /\ now = 0
    /\ epochPhase \in EpochPhases
    /\ enabled \in BOOLEAN
    /\ ref = [keyPresses |-> <<>>, keydowns_times |-> <<>>, mouseEvents |-> <<>>,
              lastMouse |-> [x |-> Null, y |-> Null, t |-> Null],
              activeSeconds |-> {}, lastKey |-> <<"", "">>]
    /\ debug = [kd |-> 0, ku |-> 0, moves |-> 0, clicks |-> 0, scrolls |-> 0,
                lastKey |-> <<"", "">>]
    /\ snap = NoSnap
    /\ handled = 0
    /\ sinceToggle = 0
    /\ press = [c \in Codes |-> NoPress]
    /\ inflight = {}
    /\ qcall = NoCall
    /\ dom = [pending |-> NoEvent, downs |-> 0, ups |-> 0]
    /\ lazy = ref

\* The page state after the first render, with the stored history w.
PageOf(w) == [busy |-> FALSE, err |-> "", windows |-> w, sent |-> 0]

\* Nothing is stored under LS_WINDOWS: the history starts empty.
Init == InitTracker /\ page = PageOf(<<>>)

Next ==
    \/ Within(MaxEvents) /\ (\E e \in KeyEvents : onKeyDownDoc(e)) /\ Alone
    \/ Within(MaxEvents) /\ (\E e \in KeyEvents : onKeyUpDoc(e)) /\ Alone
    \/ Within(MaxEvents) /\ (\E e \in Points : onMouseMove(e)) /\ Alone
    \/ Within(MaxEvents) /\ (\E e \in ClickPoints : onMouseDown(e)) /\ Alone
    \/ Within(MaxEvents) /\ (\E e \in WheelPoints : onWheel(e)) /\ Alone
    \/ snapshotFeatures
    \/ ToggleTracking
    \/ Tick

Spec == Init /\ [][Next]_vars

\* ------------------------------------------------- the keyboard and clicks
\* The events of Spec without mouse moves and wheel events.
NextKeys ==
    \/ Within(MaxEvents) /\ (\E e \in KeyEvents : onKeyDownDoc(e)) /\ Alone
    \/ Within(MaxEvents) /\ (\E e \in KeyEvents : onKeyUpDoc(e)) /\ Alone
    \/ Within(MaxEvents) /\ (\E e \in ClickPoints : onMouseDown(e)) /\ Alone
    \/ snapshotFeatures
    \/ ToggleTracking
    \/ Tick

SpecKeys == Init /\ [][NextKeys]_vars

\* ---------------------------------------------- a long stretch of activity
\* Tracking is on and one key keeps being released, second after second: every
\* handler starts with the same markActive(), and a key-up with no open record
\* leaves the buffers empty, so that a run of many events stays small.
ActiveKeyEvents == {[code |-> "KeyA", key |-> "a"]}

TickSecond ==
    /\ now < MaxActiveSeconds * 1000
    /\ now' = now + 1000
    /\ snap' = NoSnap
    /\ UNCHANGED <<epochPhase, qcall, dom, lazy, page, inflight, enabled, ref, debug, handled,
                   sinceToggle, press>>

InitActive == Init /\ enabled

NextActive ==
    \/ Within(MaxActiveEvents) /\ (\E e \in ActiveKeyEvents : onKeyUpDoc(e)) /\ Alone
    \/ snapshotFeatures
    \/ TickSecond

SpecActive == InitActive /\ [][NextActive]_vars

\* ------------------------------------------------------- the mouse alone
\* Tracking is on and only mouse events arrive; a mouse-move may carry
\* coordinates that are not finite numbers.
MousePoints == Points \cup {<<NaN, NaN>>}

InitMouse == Init /\ enabled

NextMouse ==
    \/ Within(MaxEvents) /\ (\E e \in MousePoints : onMouseMove(e)) /\ Alone
    \/ Within(MaxEvents) /\ (\E e \in ClickPoints : onMouseDown(e)) /\ Alone
    \/ Within(MaxEvents) /\ (\E e \in WheelPoints : onWheel(e)) /\ Alone
    \/ snapshotFeatures
    \/ Tick

SpecMouse == InitMouse /\ [][NextMouse]_vars

\* ------------------------------------------------------ quantile by itself
\* quantile is called on a list of values, as snapshotFeatures calls it on the
\* dwell list and on the gap list, for the median and the 95th percentile.
QuantileLists == UNION {[1..n -> QuantileValues] : n \in 0..MaxLen}

CallQuantile ==
    /\ \E arr \in QuantileLists :
           qcall' = [arr |-> arr, p50 |-> quantile(arr, 50), p95 |-> quantile(arr, 95),
                     after |-> ArgAfterQuantile(arr)]
    /\ UNCHANGED <<now, epochPhase, enabled, ref, debug, snap, handled, sinceToggle,
                   press, page, inflight, dom, lazy>>

InitQuantile == Init /\ enabled

NextQuantile == CallQuantile

SpecQuantile == InitQuantile /\ [][NextQuantile]_vars

\* ------------------------------------------------------ the page's requests
\* sendWindowForPrediction up to its await: setErr(""), setBusy(true), the
\* snapshot, and the POST of it.  page.sent numbers the requests (history).
StartSend ==
    /\ page.sent < MaxRequests
    /\ snap' = Features(ref, now, nowEpochSec)
    /\ ref' = RefAfterSnapshot(ref, now)
    /\ page' = [page EXCEPT !.err = "", !.busy = TRUE, !.sent = @ + 1]
    /\ inflight' = inflight \cup {[id |-> page.sent + 1, feat |-> snap']}
    /\ UNCHANGED <<now, epochPhase, enabled, debug, handled, sinceToggle, press, qcall, dom, lazy>>

\* The callback of setInterval(..., STEP_MS), installed while tracking is on.
IntervalTick == enabled /\ StartSend

\* The "Send current window" button, disabled while busy.
manualSend == ~page.busy /\ StartSend

\* [row, ...prev] without the slice.
PushRow_NoSlice(row, prev) == <<row>> \o prev

\* [row, ...prev].slice(0, 24)
PushRow(row, prev) ==
    LET all == <<row>> \o prev
    IN  SubSeq(all, 1, Min(Len(all), HISTORY_MAX))

\* The row built after the await: its time is the time of the response, its
\* result fields are those of the response to request req (kept as the id of
\* the request), its feat the snapshot that was sent.
RowOf(req) == [time |-> now, res |-> req.id, feat |-> req.feat]

\* sendWindowForPrediction from its await on: the response of request req has
\* arrived (ok) or the request has failed.
Settle(req, ok) ==
    /\ req \in inflight
    /\ inflight' = inflight \ {req}
    /\ page' = IF ok
               THEN [page EXCEPT !.windows = PushRow(RowOf(req), @),
                                 !.busy = FALSE]
               ELSE [page EXCEPT !.err = "Prediction error", !.busy = FALSE]
    /\ snap' = NoSnap
    /\ UNCHANGED <<now, epochPhase, enabled, ref, debug, handled, sinceToggle, press,
                   qcall, dom, lazy>>

\* The "Clear history" button: setWindows([]).
clearHistory ==
    /\ page.windows /= <<>>
    /\ page' = [page EXCEPT !.windows = <<>>]
    /\ snap' = NoSnap
    /\ UNCHANGED <<now, epochPhase, enabled, ref, debug, handled, sinceToggle, press,
                   inflight, qcall, dom, lazy>>

\* A history of n rows left under LS_WINDOWS by an earlier session, most
\* recent first: every time lies before this session's.
StoredRow(i) == [time |-> 0 - i, res |-> 0, feat |-> NoSnap]
StoredWindows(n) == [i \in 1..n |-> StoredRow(i)]

\* The persist effect stores windows.slice(0, 24): at most HISTORY_MAX rows.
StoredLengths == {0, HISTORY_MAX - 1, HISTORY_MAX}

InitPage == InitTracker /\ \E n \in StoredLengths : page = PageOf(StoredWindows(n))

NextPage ==
    \/ IntervalTick
    \/ manualSend
    \/ \E req \in inflight, ok \in BOOLEAN : Settle(req, ok)
    \/ clearHistory
    \/ ToggleTracking
    \/ Tick

SpecPage == InitPage /\ [][NextPage]_vars

\* ------------------------------------------------- one DOM key event
\* The listener effect registers each key handler twice: on document, in the
\* capture phase, and on window (onKeyDownWin / onKeyUpWin call onKeyDownDoc /
\* onKeyUpDoc).  A keydown or keyup dispatched in the page first runs the
\* document listener and then, bubbling up to window, the window listener,
\* before anything else runs.  dom.downs and dom.ups count the DOM events.
onKeyDownWin(e) == onKeyDownDoc(e)
onKeyUpWin(e) == onKeyUpDoc(e)

Dispatching == dom.pending /= NoEvent

DomKeyDownCapture(e) ==
    /\ ~Dispatching
    /\ dom.downs + dom.ups < MaxDomEvents
    /\ onKeyDownDoc(e)
    /\ dom' = [dom EXCEPT !.pending = [type |-> "keydown", e |-> e], !.downs = @ + 1]
    /\ UNCHANGED lazy

DomKeyUpCapture(e) ==
    /\ ~Dispatching
    /\ dom.downs + dom.ups < MaxDomEvents
    /\ onKeyUpDoc(e)
    /\ dom' = [dom EXCEPT !.pending = [type |-> "keyup", e |-> e], !.ups = @ + 1]
    /\ UNCHANGED lazy

DomKeyDownBubble ==
    /\ Dispatching
    /\ dom.pending.type = "keydown"
    /\ onKeyDownWin(dom.pending.e)
    /\ dom' = [dom EXCEPT !.pending = NoEvent]
    /\ UNCHANGED lazy

DomKeyUpBubble ==
    /\ Dispatching
    /\ dom.pending.type = "keyup"
    /\ onKeyUpWin(dom.pending.e)
    /\ dom' = [dom EXCEPT !.pending = NoEvent]
    /\ UNCHANGED lazy

InitDom == Init /\ enabled

NextDom ==
    \/ \E e \in KeyEvents : DomKeyDownCapture(e)
    \/ \E e \in KeyEvents : DomKeyUpCapture(e)
    \/ DomKeyDownBubble
    \/ DomKeyUpBubble
    \/ ~Dispatching /\ snapshotFeatures
    \/ ~Dispatching /\ Tick

SpecDom == InitDom /\ [][NextDom]_vars

\* ------------------------------------------------ pruning against none
\* Tracking is on; next to ref.current, lazy receives what every handler does
\* before its pruneOld(t) call, and is never pruned.
LazyKeyDown(e) ==
    /\ onKeyDownDoc(e)
    /\ lazy' = keyDownBody(lazy, CodeOf(e), now)
    /\ UNCHANGED dom

LazyKeyUp(e) ==
    /\ onKeyUpDoc(e)
    /\ lazy' = keyUpBody(lazy, CodeOf(e), now)
    /\ UNCHANGED dom

LazyMouseDown(e) ==
    /\ onMouseDown(e)
    /\ lazy' = mouseDownBody(lazy, e[1], e[2], now)
    /\ UNCHANGED dom

InitLazy == Init /\ enabled

NextLazy ==
    \/ Within(MaxEvents) /\ \E e \in KeyEvents : LazyKeyDown(e)
    \/ Within(MaxEvents) /\ \E e \in KeyEvents : LazyKeyUp(e)
    \/ Within(MaxEvents) /\ \E e \in ClickPoints : LazyMouseDown(e)
    \/ snapshotFeatures
    \/ Tick

SpecLazy == InitLazy /\ [][NextLazy]_vars

\* ================================================================ claims
\* cut of a snapshot taken now.
Cut == now - WINDOW_MS

\* The buffers without the records that lie before the window: key records by
\* their down timestamp, mouse records by their timestamp.
InWindowOnly(s, cut) ==
    LET keyIn(p) == p.down_ts >= cut
        mouseIn(ev) == ev[1] >= cut
    IN  [s EXCEPT !.keyPresses = Filter(@, keyIn),
                  !.mouseEvents = Filter(@, mouseIn)]

\* C1 (window containment): a buffered record whose timestamp (the down
\* timestamp of a key record) is earlier than now - WINDOW_MS contributes to
\* nothing a snapshot returns: the snapshot equals the one computed with those
\* records taken out of the buffers.
C1_WindowContainment ==
    snap /= NoSnap => snap = Features(InWindowOnly(ref, Cut), now, nowEpochSec)

\* C2 (pairing correctness): a key-down of K at t0 followed by the first key-up
\* of K at t1 > t0, with no key-down of K in between, gives the press the dwell
\* t1 - t0 in a later snapshot whose window holds the press.
C2_PairingCorrectness ==
    snap /= NoSnap =>
        \A c \in Codes :
            LET pr == press[c] IN
            (pr.idx /= Null /\ pr.up /= Null /\ pr.up > pr.down
                /\ InKeyWindow(ref.keyPresses[pr.idx], Cut))
            => Dwell(ref.keyPresses[pr.idx]) = pr.up - pr.down

C2_Witness ==
    /\ snap /= NoSnap
    /\ handled = MaxEvents
    /\ \E c \in Codes :
          /\ press[c].idx /= Null /\ press[c].up /= Null /\ press[c].up > press[c].down
          /\ InKeyWindow(ref.keyPresses[press[c].idx], Cut)
          /\ press[c].idx > 1
          /\ ref.keyPresses[1].code = c
          /\ ref.keyPresses[1].up_ts = Null

\* The press of code c that Scenario A describes: the only two handler calls so
\* far were its key-down and then its key-up, and both lie in the window.
ScenarioA(c) ==
    /\ snap /= NoSnap
    /\ handled = 2
    /\ press[c].down /= Null /\ press[c].up /= Null
    /\ press[c].down >= Cut

\* C3 (Scenario A generalised): one key-down at t0 and one key-up of the same
\* key at t1 on an empty enabled tracker, both inside the window of the
\* snapshot, give ks_keydowns = 1, ks_keyups = 1, ks_event_count = 2,
\* ks_unique_keys = 1 and ks_mean_dwell_ms = t1 - t0.
C3_ScenarioA ==
    \A c \in Codes :
        ScenarioA(c) =>
            /\ snap.ks_keydowns = 1
            /\ snap.ks_keyups = 1
            /\ snap.ks_event_count = 2
            /\ snap.ks_unique_keys = 1
            /\ snap.ks_mean_dwell_ms = RatOfInt(press[c].up - press[c].down)

C3_Witness == \E c \in Codes : ScenarioA(c) /\ press[c].down > 0 /\ press[c].up > press[c].down

\* C4: ks_unique_keys never exceeds ks_keydowns in a snapshot.
C4_UniqueKeysAtMostKeyDowns ==
    snap /= NoSnap => snap.ks_unique_keys <= snap.ks_keydowns

\* C5: ks_keydowns is the number of records of the filtered window set (the set
\* that ks_unique_keys, the dwell list and key_events are computed over),
\* ks_keyups the number of those whose up timestamp is resolved and inside the
\* window, and ks_event_count their sum.
C5_KeyCounts ==
    snap /= NoSnap =>
        LET kpW == keyPressesW(ref, Cut)
            upIn == {i \in DOMAIN kpW : kpW[i].up_ts /= Null /\ kpW[i].up_ts >= Cut}
        IN  /\ snap.ks_keydowns = Len(kpW)
            /\ Len(snap.key_events) = Len(kpW)
            /\ snap.ks_keyups = Cardinality(upIn)
            /\ snap.ks_event_count = snap.ks_keydowns + snap.ks_keyups

BuffersUnchanged ==
    /\ ref'.keyPresses = ref.keyPresses
    /\ ref'.keydowns_times = ref.keydowns_times
    /\ ref'.mouseEvents = ref.mouseEvents
    /\ ref'.activeSeconds = ref.activeSeconds

\* C6 (disabled tracker drops events): a handler invoked while enabled is false
\* leaves the key records, the mouse records and the active-second set as they
\* were, and a snapshot taken when every event so far was delivered to a
\* disabled tracker shows ks_keydowns = 0.
C6_DisabledDrops ==
    /\ [][(~enabled /\ sinceToggle' = sinceToggle + 1) => BuffersUnchanged]_vars
    /\ []((snap /= NoSnap /\ handled = 0) => snap.ks_keydowns = 0)

C6_Witness ==
    /\ ~enabled
    /\ sinceToggle = MaxDropped
    /\ handled = 0
    /\ snap /= NoSnap
    /\ snap.ks_keydowns = 0

\* Every record of s is inside the retention window of a handler run at t.
AllRetained(s, t) ==
    /\ \A i \in DOMAIN s.mouseEvents : s.mouseEvents[i][1] >= t - WINDOW_MS - 500
    /\ \A i \in DOMAIN s.keyPresses :
          LET p == s.keyPresses[i] IN
          \/ p.down_ts >= t - WINDOW_MS - 500
          \/ (p.up_ts /= Null /\ p.up_ts >= t - WINDOW_MS - 500)

\* C7 (cancellation is immediate): once enabled is false no step changes a
\* tracker buffer until enabled is true again, and the first event handled
\* after (re-)enabling leaves no record older than the retention window.
C7_Cancellation ==
    [][/\ ~enabled => BuffersUnchanged
       /\ (enabled /\ sinceToggle = 0 /\ sinceToggle' = 1) => AllRetained(ref', now)]_vars

\* The first event handled after re-enabling has pruned a stale record.
C7_Witness ==
    /\ enabled
    /\ sinceToggle = 1
    /\ handled >= 2
    /\ \/ debug.kd > Len(ref.keyPresses)
       \/ debug.moves + debug.clicks + debug.scrolls > Len(ref.mouseEvents)

C9_RetentionBound ==
    [][handled' = handled + 1 => AllRetained(ref', now')]_vars

\* A key record kept by its up timestamp alone, right after the key-up.
C9_Witness ==
    \E i \in DOMAIN ref.keyPresses :
        /\ ref.keyPresses[i].up_ts = now
        /\ ref.keyPresses[i].down_ts < now - WINDOW_MS - 500
        /\ Len(ref.keyPresses) < debug.kd

EmptySnapshot ==
    [ks_event_count |-> 0, ks_keydowns |-> 0, ks_keyups |-> 0, ks_unique_keys |-> 0,
     ks_mean_dwell_ms |-> Zero, ks_median_dwell_ms |-> Zero, ks_p95_dwell_ms |-> Zero,
     ks_mean_ikg_ms |-> Zero, ks_median_ikg_ms |-> Zero, ks_p95_ikg_ms |-> Zero,
     mouse_move_count |-> 0, mouse_click_count |-> 0, mouse_scroll_count |-> 0,
     mouse_total_distance_px |-> Zero, mouse_mean_speed_px_s |-> Zero,
     mouse_max_speed_px_s |-> Zero, active_seconds_fraction |-> Zero,
     key_events |-> <<>>, mouse_events |-> <<>>, head |-> "hybrid"]

\* C10 (empty tracker): a snapshot of a tracker that has recorded no event
\* returns every count 0, every statistic 0, active_seconds_fraction 0 and
\* empty sequences.
C10_EmptyTracker ==
    (snap /= NoSnap /\ handled = 0) => snap = EmptySnapshot

C10_Witness ==
    /\ snap /= NoSnap
    /\ handled = 0
    /\ now > WINDOW_MS

\* A step in which the attached key-up handler runs for event e.
KeyUpStep(e) == enabled /\ handled' = handled + 1 /\ onKeyUpDoc(e)

\* C11 (key-up matching): an enabled key-up of code K at time t, with an open
\* record of K in the buffer, sets up_ts = t on exactly one record, the most
\* recently appended record of K that has no up timestamp, and changes no field
\* of any other record: what the handler leaves is the old buffer with that one
\* field set, less the records its pruning drops.
C11_KeyUpMatching ==
    [][\A e \in KeyEvents :
          (OpenOf(ref.keyPresses, CodeOf(e)) /= {} /\ KeyUpStep(e)) =>
              LET kp == ref.keyPresses
                  latest == MaxOf(OpenOf(kp, CodeOf(e)))
                  resolved == [kp EXCEPT ![latest].up_ts = now]
                  keep(p) == KeepKey(p, Cutoff(now))
              IN  /\ ref'.keyPresses = Filter(resolved, keep)
                  /\ Cardinality({i \in DOMAIN kp : resolved[i] /= kp[i]}) = 1]_vars

\* Two records of one code were open and the key-up closed the later one only.
C11_Witness ==
    /\ handled = 3
    /\ Len(ref.keyPresses) = 2
    /\ ref.keyPresses[1].code = ref.keyPresses[2].code
    /\ ref.keyPresses[1].up_ts = Null
    /\ ref.keyPresses[2].up_ts = now
    /\ ref.lastKey = <<"up", ref.keyPresses[2].code>>

\* C12 (unmatched key-up): an enabled key-up whose code has no open record sets
\* no up timestamp and adds no record, so a snapshot finds the same released
\* records and the same dwell list as before, and the handler still marks the
\* current second active and prunes.
C12_UnmatchedKeyUp ==
    [][\A e \in KeyEvents :
          (OpenOf(ref.keyPresses, CodeOf(e)) = {} /\ KeyUpStep(e)) =>
              LET keep(p) == KeepKey(p, Cutoff(now))
                  keepMouse(ev) == ev[1] >= Cutoff(now)
                  released(p) == p.up_ts /= Null
                  before == keyPressesW(ref, Cut)
                  after == keyPressesW(ref', Cut)
              IN  /\ ref'.keyPresses = Filter(ref.keyPresses, keep)
                  /\ ref'.mouseEvents = Filter(ref.mouseEvents, keepMouse)
                  /\ Filter(after, released) = Filter(before, released)
                  /\ dwellMs(after) = dwellMs(before)
                  /\ nowEpochSec \in ref'.activeSeconds
                  /\ ref'.lastKey = <<"up", CodeOf(e)>>
                  /\ AllRetained(ref', now)]_vars

\* A key-down of one code, then a key-up of a code that was never pressed.
C12_Witness ==
    /\ handled = 2
    /\ Len(ref.keyPresses) = 1
    /\ ref.keyPresses[1].up_ts = Null
    /\ \E c \in Codes : /\ ref.lastKey = <<"up", c>>
                        /\ press[c].down = Null
    /\ debug.ku = 0
    /\ nowEpochSec \in ref.activeSeconds

\* Markers a snapshot taken now counts: those from nowEpochSec - 10 on.
ActiveCount == Cardinality({x \in ref.activeSeconds : x >= nowEpochSec - SecWindow})

\* C13 as stated (activity fraction): active_seconds_fraction equals the number
\* of distinct active-second markers inside the trailing window divided by the
\* window length in whole seconds, and lies in [0, 1].
C13_ActivityFraction ==
    snap /= NoSnap =>
        /\ snap.active_seconds_fraction = Rat(ActiveCount, SecWindow)
        /\ RatLeq(Zero, snap.active_seconds_fraction)
        /\ RatLeq(snap.active_seconds_fraction, RatOfInt(1))

\* C13 (activity fraction, amended): active_seconds_fraction equals the smaller
\* of 1 and that quotient (the window can hold markers of 11 distinct seconds),
\* and lies in [0, 1].
C13_ActivityFractionClamped ==
    snap /= NoSnap =>
        /\ snap.active_seconds_fraction = Rat(Min(ActiveCount, SecWindow), SecWindow)
        /\ RatLeq(Zero, snap.active_seconds_fraction)
        /\ RatLeq(snap.active_seconds_fraction, RatOfInt(1))

\* A snapshot that found markers of 11 distinct seconds and reported 1.
C13_Witness ==
    /\ snap /= NoSnap
    /\ ActiveCount = SecWindow + 1
    /\ snap.active_seconds_fraction = RatOfInt(1)

\* The markers of s lie in the seconds of the window that ends at second sec.
SecondsInWindow(s, sec) ==
    \A x \in s.activeSeconds : sec - SecWindow <= x /\ x <= sec

\* C14 as stated (active-second set): in every reachable state the
\* active-second set holds only whole seconds within the trailing window;
\* older markers have been pruned.
C14_ActiveSecondSet == SecondsInWindow(ref, nowEpochSec)

\* C14 (active-second set, amended): the set holds only seconds of the trailing
\* window when a handler that recorded an event returns; between events older
\* markers stay in the set until the next recorded event prunes them.
C14_ActiveSecondSetAfterEvent ==
    [][handled' = handled + 1 =>
          /\ SecondsInWindow(ref', nowEpochSec')
          /\ nowEpochSec' \in ref'.activeSeconds]_vars

\* A handler has just dropped a key record that had aged out, and with it the
\* marker of the second in which that key went down.
C14_Witness ==
    /\ handled = 2
    /\ debug.kd > Len(ref.keyPresses)
    /\ ref.activeSeconds = {nowEpochSec}

\* The median of a non-empty list of integers: its middle value once sorted, or
\* the mean of the two middle values.
MedianOf(list) ==
    LET a == SortBy(list, Ident)
        m == Len(a)
    IN  IF m % 2 = 1 THEN RatOfInt(a[(m + 1) \div 2])
        ELSE Rat(a[m \div 2] + a[m \div 2 + 1], 2)

MouseW == mev(ref, Cut)

\* C16 (mouse distance and speed): when the window holds exactly two mouse
\* records, both moves with finite coordinates, (t0,x0,y0) and (t1,x1,y1) with
\* t1 > t0, mouse_total_distance_px is their Euclidean distance d and the mean
\* and the maximum speed both equal d / ((t1 - t0) / 1000).  (0,0) at 0 ms to
\* (30,0) at 1000 ms gives 30, 30, 30.
C16_MouseDistanceSpeed ==
    /\ MouseLoop(<<<<0, 0, 0, MOVE>>, <<1000, 30, 0, MOVE>>>>) =
           [totalDist |-> 30, speeds |-> <<RatOfInt(30)>>, maxSpeed |-> RatOfInt(30)]
    /\ (/\ snap /= NoSnap
        /\ Len(MouseW) = 2
        /\ \A i \in 1..2 : /\ MouseW[i][4] = MOVE
                            /\ IsFinite(MouseW[i][2])
                            /\ IsFinite(MouseW[i][3])
        /\ MouseW[2][1] > MouseW[1][1])
       => LET dx == MouseW[2][2] - MouseW[1][2]
              dy == MouseW[2][3] - MouseW[1][3]
              dt == MouseW[2][1] - MouseW[1][1]
              d == snap.mouse_total_distance_px
          IN  /\ d.d = 1
              /\ d.n >= 0
              /\ d.n * d.n = dx * dx + dy * dy
              /\ snap.mouse_mean_speed_px_s = Rat(d.n * 1000, dt)
              /\ snap.mouse_max_speed_px_s = Rat(d.n * 1000, dt)

\* Two moves 5 px and 500 ms apart: distance 5, mean and maximum speed 10 px/s.
C16_Witness ==
    /\ snap /= NoSnap
    /\ Len(snap.mouse_events) = 2
    /\ snap.mouse_move_count = 2
    /\ snap.mouse_events[2][1] - snap.mouse_events[1][1] = 500
    /\ snap.mouse_total_distance_px = RatOfInt(5)
    /\ snap.mouse_mean_speed_px_s = RatOfInt(10)
    /\ snap.mouse_max_speed_px_s = RatOfInt(10)

\* C17 (distance non-negativity): mouse_total_distance_px is a finite number
\* >= 0 in every snapshot, whatever the order of move, click and scroll
\* events, with records sharing a timestamp, with zero-distance moves and with
\* records whose coordinates are not finite: such a pair is left out of the
\* sum, which stays the sum over the pairs with finite coordinates.
C17_DistanceNonNegative ==
    snap /= NoSnap =>
        LET m == MouseW
            counted == {i \in 2..Len(m) :
                          /\ m[i][4] = MOVE \/ m[i - 1][4] = MOVE
                          /\ \A k \in {i - 1, i} : IsFinite(m[k][2]) /\ IsFinite(m[k][3])}
            dists == [i \in 2..Len(m) |->
                         IF i \in counted THEN Hypot(m[i][2] - m[i - 1][2], m[i][3] - m[i - 1][3])
                         ELSE 0]
            total == IF Len(m) < 2 THEN 0
                     ELSE SumSeq([j \in 1..(Len(m) - 1) |-> dists[j + 1]])
        IN  /\ snap.mouse_total_distance_px /= RatOfInt(NaN)
            /\ RatLeq(Zero, snap.mouse_total_distance_px)
            /\ snap.mouse_total_distance_px = RatOfInt(total)
            /\ RatLeq(Zero, snap.mouse_mean_speed_px_s)
            /\ RatLeq(Zero, snap.mouse_max_speed_px_s)

\* A move with non-finite coordinates sits between two finite moves that are
\* 5 px apart from their neighbours: nothing is added for either pair.
C17_Witness ==
    /\ snap /= NoSnap
    /\ Len(snap.mouse_events) = 3
    /\ ~IsFinite(snap.mouse_events[2][2])
    /\ IsFinite(snap.mouse_events[1][2])
    /\ IsFinite(snap.mouse_events[3][2])
    /\ snap.mouse_events[1][2] /= snap.mouse_events[3][2]
    /\ snap.mouse_total_distance_px = Zero

MinOfList(arr) == MinOf({arr[i] : i \in DOMAIN arr})
MaxOfList(arr) == MaxOf({arr[i] : i \in DOMAIN arr})

\* C18 (percentile ordering): for every non-empty list the median and the 95th
\* percentile that quantile returns satisfy p50 <= p95, and both lie within
\* [min(list), max(list)].
C18_PercentileOrdering ==
    (qcall /= NoCall /\ Len(qcall.arr) >= 1) =>
        /\ RatLeq(RatOfInt(MinOfList(qcall.arr)), qcall.p50)
        /\ RatLeq(qcall.p50, qcall.p95)
        /\ RatLeq(qcall.p95, RatOfInt(MaxOfList(qcall.arr)))

\* An unsorted list of three values: the median is 7, the 95th percentile 90.7.
C18_Witness ==
    /\ qcall /= NoCall
    /\ qcall.arr = <<100, 0, 7>>
    /\ qcall.p50 = RatOfInt(7)
    /\ qcall.p95 = Rat(907, 10)

\* C19 (sequences): key_events holds one entry per filtered key record, in
\* ascending order of down timestamp, whose up_ts is the record's up timestamp
\* or, for an unreleased key, its down timestamp, and whose next_down_ts is the
\* down timestamp of the entry that follows or, for the last entry, its own
\* up_ts; mouse_events holds the filtered mouse records in ascending order of
\* timestamp.
C19_Sequences ==
    snap /= NoSnap =>
        LET ke == snap.key_events
            me == snap.mouse_events
            kp == keyPressesW(ref, Cut)
            inWindow(ev) == ev[1] >= Cut
            mouse == Filter(ref.mouseEvents, inWindow)
        IN  /\ Len(ke) = Len(kp)
            /\ \A i \in DOMAIN ke :
                  /\ ke[i].down_ts = kp[i].down_ts
                  /\ ke[i].up_ts = IF kp[i].up_ts = Null THEN kp[i].down_ts
                                   ELSE kp[i].up_ts
                  /\ ke[i].next_down_ts = IF i < Len(ke) THEN ke[i + 1].down_ts
                                          ELSE ke[i].up_ts
            /\ \A i, j \in DOMAIN ke : i < j => ke[i].down_ts <= ke[j].down_ts
            /\ me = mouse
            /\ \A i, j \in DOMAIN me : i < j => me[i][1] <= me[j][1]

\* Two entries: the first was released later than the second went down, the
\* last is unreleased and carries its down timestamp three times.
C19_Witness ==
    /\ snap /= NoSnap
    /\ Len(snap.key_events) = 2
    /\ snap.key_events[1].up_ts /= snap.key_events[2].down_ts
    /\ snap.key_events[1].next_down_ts = snap.key_events[2].down_ts
    /\ ref.keyPresses[2].up_ts = Null
    /\ snap.key_events[2].up_ts = snap.key_events[2].down_ts
    /\ snap.key_events[2].next_down_ts = snap.key_events[2].down_ts

\* C20 (serialised cycles): at no time are two prediction requests, started
\* by the periodic tick or by the manual send, in flight together.
C20_SerialisedCycles == Cardinality(inflight) <= 1

\* C21 (one physical key event is one tracker event): while every record is
\* still in the window, a snapshot taken between DOM events reports as many
\* key-downs as DOM keydowns were dispatched to the registered listeners, and
\* no more key-ups than DOM keyups were dispatched.
C21_OneEventOneRecord ==
    (snap /= NoSnap /\ ~Dispatching /\ now < WINDOW_MS) =>
        /\ snap.ks_keydowns = dom.downs
        /\ snap.ks_keyups <= dom.ups

\* C22 (eager pruning is equivalent to lazy pruning): for every sequence of
\* enabled events and every snapshot time, the snapshot computed from the
\* buffers that every handler prunes equals the snapshot computed from the
\* buffers that no handler ever pruned.
C22_PruningEquivalence ==
    snap /= NoSnap => snap = Features(lazy, now, nowEpochSec)

\* The records of a buffer that lie in the window of a snapshot taken now.
KeysInWindow(s) == LET in(p) == p.down_ts >= Cut IN Filter(s.keyPresses, in)
MouseInWindow(s) == LET in(ev) == ev[1] >= Cut IN Filter(s.mouseEvents, in)

\* C23 (no in-window record is lost): a key record or mouse record appended at
\* time t is still buffered at every time now with t <= now <= t + WINDOW_MS,
\* whatever was handled in between, and a snapshot taken then counts it: the
\* in-window part of the buffers is the in-window part of everything ever
\* appended.
C23_NoRecordLost ==
    /\ KeysInWindow(ref) = KeysInWindow(lazy)
    /\ MouseInWindow(ref) = MouseInWindow(lazy)
    /\ snap /= NoSnap =>
          /\ snap.ks_keydowns = Len(KeysInWindow(lazy))
          /\ snap.mouse_events = MouseInWindow(lazy)
          /\ \A i \in DOMAIN KeysInWindow(lazy) :
                \E j \in DOMAIN snap.key_events :
                    snap.key_events[j].down_ts = KeysInWindow(lazy)[i].down_ts

\* A key went down at 500 and the snapshot is taken at 10500, the last instant
\* of its window, after a click handled at 10500 has pruned.
C23_Witness ==
    /\ snap /= NoSnap
    /\ now = 500 + WINDOW_MS
    /\ Len(lazy.keyPresses) >= 1
    /\ lazy.keyPresses[1].down_ts = 500
    /\ Len(snap.mouse_events) >= 1
    /\ snap.mouse_events[Len(snap.mouse_events)][1] = now
    /\ snap.key_events[1].down_ts = 500

\* C24 (a key-up never revives an expired press): no buffered record carries
\* an up timestamp more than WINDOW_MS + 500 ms after its down timestamp, and
\* no dwell value that a snapshot reports exceeds WINDOW_MS + 500 ms.
C24_NoRevival ==
    /\ \A i \in DOMAIN ref.keyPresses :
          ref.keyPresses[i].up_ts /= Null =>
              ref.keyPresses[i].up_ts - ref.keyPresses[i].down_ts
                  <= WINDOW_MS + PRUNE_SLACK_MS
    /\ snap /= NoSnap =>
          /\ \A j \in DOMAIN snap.key_events :
                snap.key_events[j].up_ts - snap.key_events[j].down_ts
                    <= WINDOW_MS + PRUNE_SLACK_MS
          /\ RatLeq(snap.ks_p95_dwell_ms, RatOfInt(WINDOW_MS + PRUNE_SLACK_MS))
          /\ RatLeq(snap.ks_mean_dwell_ms, RatOfInt(WINDOW_MS + PRUNE_SLACK_MS))

\* C25 (mouse pair rule): over the in-window mouse records in ascending time
\* order, an adjacent pair adds its distance to mouse_total_distance_px iff
\* one of its two records is a move; a pair of two non-move records adds
\* neither distance nor speed sample; a pair with zero elapsed time adds its
\* distance and no speed sample; mean and maximum speed are taken over the
\* speed samples and are 0 when there is none.  (Pairs with a coordinate that
\* is not finite add nothing.)
C25_MousePairRule ==
    snap /= NoSnap =>
        LET m == MouseW
            finite(i) == \A k \in {i - 1, i} : IsFinite(m[k][2]) /\ IsFinite(m[k][3])
            movePairs == {i \in 2..Len(m) :
                            (m[i][4] = MOVE \/ m[i - 1][4] = MOVE) /\ finite(i)}
            samples == {i \in movePairs : m[i][1] > m[i - 1][1]}
            d(i) == Hypot(m[i][2] - m[i - 1][2], m[i][3] - m[i - 1][3])
            v(i) == Rat(d(i) * 1000, m[i][1] - m[i - 1][1])
            dists == [j \in 1..(Len(m) - 1) |-> IF j + 1 \in movePairs THEN d(j + 1) ELSE 0]
            vs == [j \in 1..(Len(m) - 1) |-> IF j + 1 \in samples THEN v(j + 1) ELSE Zero]
            n == Cardinality(samples)
        IN  /\ \A i, j \in DOMAIN m : i < j => m[i][1] <= m[j][1]
            /\ snap.mouse_total_distance_px = RatOfInt(SumSeq(dists))
            /\ snap.mouse_mean_speed_px_s =
                  IF n = 0 THEN Zero ELSE Rat(RatSum(vs).n, RatSum(vs).d * n)
            /\ \A i \in samples : RatLeq(v(i), snap.mouse_max_speed_px_s)
            /\ snap.mouse_max_speed_px_s = Zero \/ \E i \in samples : snap.mouse_max_speed_px_s = v(i)

\* A click at (3,4), a wheel event at (0,0) and a move to (3,4), all at one
\* instant: the click-wheel pair adds nothing, the wheel-move pair adds its
\* 5 px and no speed sample.
C25_Witness ==
    /\ snap /= NoSnap
    /\ Len(snap.mouse_events) = 3
    /\ snap.mouse_events[1][4] = CLICK
    /\ snap.mouse_events[2][4] = SCROLL
    /\ snap.mouse_events[3][4] = MOVE
    /\ snap.mouse_events[1][2] /= snap.mouse_events[2][2]
    /\ snap.mouse_events[3][1] = snap.mouse_events[2][1]
    /\ snap.mouse_total_distance_px = RatOfInt(5)
    /\ snap.mouse_mean_speed_px_s = Zero
    /\ snap.mouse_max_speed_px_s = Zero

\* The ascending arrangement of a list: the non-decreasing list of the same
\* length in which every value occurs as often as in arr.
Ascending(arr) ==
    LET vals == {arr[i] : i \in DOMAIN arr}
        times(a, x) == Cardinality({i \in DOMAIN a : a[i] = x})
    IN  CHOOSE a \in [DOMAIN arr -> vals] :
            /\ \A i \in DOMAIN a : i + 1 \in DOMAIN a => a[i] <= a[i + 1]
            /\ \A x \in vals : times(a, x) = times(arr, x)

\* The reference percentile, q in hundredths: with p = q * (n - 1),
\* lo = floor(p) and frac = p - lo (indices from 0), sorted[lo] +
\* frac * (sorted[lo+1] - sorted[lo]) when index lo+1 exists, sorted[lo]
\* otherwise, and 0 for the empty list.
ReferenceQuantile(arr, q) ==
    IF arr = <<>> THEN Zero
    ELSE LET sorted == Ascending(arr)
             n == Len(arr)
             lo == (q * (n - 1)) \div 100
             frac == Rat(q * (n - 1) - 100 * lo, 100)
         IN  IF lo + 1 < n
             THEN RatAdd(RatOfInt(sorted[lo + 1]),
                         Rat(frac.n * (sorted[lo + 2] - sorted[lo + 1]), frac.d))
             ELSE RatOfInt(sorted[lo + 1])

\* C26 (percentile computation matches the reference): for every list and q
\* in {0.5, 0.95} quantile returns the reference percentile, 0 for the empty
\* list, and leaves the list it was given in its order.
C26_QuantileReference ==
    qcall /= NoCall =>
        /\ qcall.p50 = ReferenceQuantile(qcall.arr, 50)
        /\ qcall.p95 = ReferenceQuantile(qcall.arr, 95)
        /\ qcall.after = qcall.arr

\* An unsorted list of four values: median 4, 95th percentile 86.05.
C26_Witness ==
    /\ qcall /= NoCall
    /\ qcall.arr = <<100, 0, 7, 1>>
    /\ qcall.after = <<100, 0, 7, 1>>
    /\ qcall.p50 = RatOfInt(4)
    /\ qcall.p95 = Rat(8605, 100)

\* The second of the last recorded event: every handler marks its second
\* active and its pruning keeps that second, so it is the largest marker.
LastEventSec == MaxOf(ref.activeSeconds)

\* No event has been recorded for more than WINDOW_MS + 1000 ms: even the
\* first millisecond of the last active second lies that far back.
IdleWindow ==
    \/ ref.activeSeconds = {}
    \/ (now + epochPhase) - 1000 * LastEventSec > WINDOW_MS + 1000

\* C27 (idle window degrades to zero): a snapshot taken when no event has been
\* handled for more than WINDOW_MS + 1000 ms returns every count 0, every
\* dwell, gap and speed statistic 0, total distance 0, active_seconds_fraction
\* 0 and empty sequences, although the stale records are still buffered.
C27_IdleWindowZero ==
    (snap /= NoSnap /\ IdleWindow) => snap = EmptySnapshot

\* A key went down and a click was recorded, then nothing for 20.5 s or more:
\* the open press and the click are still buffered and the snapshot is empty.
C27_Witness ==
    /\ snap = EmptySnapshot
    /\ now = 21000
    /\ IdleWindow
    /\ ref.activeSeconds /= {}
    /\ \E i \in DOMAIN ref.keyPresses : ref.keyPresses[i].up_ts = Null
    /\ ref.mouseEvents /= <<>>

\* The in-window records that a snapshot reports.
ReportedRecords ==
    snap.ks_keydowns + snap.ks_keyups + snap.mouse_move_count
        + snap.mouse_click_count + snap.mouse_scroll_count

\* C28 (activity is consistent with the counts): a snapshot that reports at
\* least one in-window key or mouse record has active_seconds_fraction > 0.
C28_ActivityConsistent ==
    (snap /= NoSnap /\ ReportedRecords > 0) =>
        RatLess(Zero, snap.active_seconds_fraction)

\* A key went down at 500 and the snapshot is taken at 10500, the last instant
\* at which both the record and its second are inside the window.
C28_Witness ==
    /\ snap /= NoSnap
    /\ now = 500 + WINDOW_MS
    /\ snap.ks_keydowns = 1
    /\ snap.key_events[1].down_ts = 500
    /\ ReportedRecords = 1
    /\ snap.active_seconds_fraction = Rat(1, 10)

\* The history is ordered most recent first.
MostRecentFirst(w) == \A i, j \in DOMAIN w : i < j => w[i].time >= w[j].time

\* C29 (prediction history): the windows list never holds more than 24 rows
\* and is ordered most recent first; a successful response puts its row at
\* the head, in front of the rows that were there, and drops at most the last
\* one; a failed request leaves the list as it was and sets the error message.
C29_PredictionHistory ==
    /\ [](Len(page.windows) <= HISTORY_MAX /\ MostRecentFirst(page.windows))
    /\ [][\A req \in inflight :
            /\ Settle(req, TRUE) =>
                  LET w == page.windows
                      w2 == page'.windows
                  IN  /\ Len(w2) = Min(Len(w) + 1, HISTORY_MAX)
                      /\ w2[1].res = req.id /\ w2[1].feat = req.feat
                      /\ \A i \in 2..Len(w2) : w2[i] = w[i - 1]
                      /\ page'.err = page.err
            /\ Settle(req, FALSE) =>
                  /\ page'.windows = page.windows
                  /\ page'.err /= ""]_vars

\* A stored history of 24 rows; request 2 is answered before request 1, both
\* with success, and request 3 fails: the list still has 24 rows, the row of
\* request 1 in front of the row of request 2, and the error is set.
C29_Witness ==
    /\ Len(page.windows) = HISTORY_MAX
    /\ page.windows[1].res = 1
    /\ page.windows[2].res = 2
    /\ page.windows[1].time > page.windows[2].time
    /\ page.windows[HISTORY_MAX] = StoredRow(HISTORY_MAX - 2)
    /\ page.err /= ""
    /\ inflight = {}

\* C30 (busy tracks the requests in flight): busy is true in every state in
\* which a started prediction request has not settled, and false once every
\* started request has settled.
C30_BusyTracksInflight == page.busy <=> inflight /= {}

====
